---- MODULE Spec2Model ----
(***************************************************************************)
(* Session store, menu store and navigation guard of the Work Assistant    *)
(* admin front end (claude_code flavour), with the stateless guard of the  *)
(* codex flavour as an operator.                                           *)
(*                                                                         *)
(* Every asynchronous function is cut at its awaits: one action per        *)
(* synchronous segment, the server's answer (payload or rejection) drawn   *)
(* with \E.  JavaScript null/undefined strings are "", a null profile is   *)
(* NullUser, and arrays used only through includes() are sets.             *)
(***************************************************************************)
EXTENDS Integers, Sequences, FiniteSets, TLC

VARIABLES
    token,          \* user store: token.value
    refreshToken,   \* user store: refreshToken.value
    userInfo,       \* user store: userInfo.value (NullUser for null)
    permissions,    \* user store: permissions.value
    ls,             \* window.localStorage: a function key -> string
    menus,          \* menu store: menus.value (the unfiltered tree)
    routes,         \* router: routes added under 'Layout' by router.addRoute
    nav,            \* guard invocations: position, target, next() argument
    loginT,         \* the login() call in flight
    appT,           \* App.vue onMounted
    refreshT,       \* the refreshUserToken() call in flight
    pushReq,        \* router.push requests not yet dispatched
    hydrated,       \* what has been fetched/registered in this session
    flat,           \* menu store: the flat list handed to buildMenuTree
    visible,        \* menu store: the last value computed for visibleMenus
    authErrorShowing, \* window.__authErrorShowing
    dialogs,        \* open 'session expired' confirmation dialogs
    reqs,           \* requests sent through the axios wrapper
    envelope,       \* a response body handed to a response interceptor, and what the caller gets
    resolution,     \* a resolveComponent call: view modules, router, returned component
    dict,           \* dictionary store: dictMap.value, loading.value
    mqtt            \* useMqtt: client.value, connected.value, messages.value, the clients created

\* What the session and navigation actions leave alone
auxVars == <<envelope, resolution, dict, mqtt>>

extVars == <<flat, visible, authErrorShowing, dialogs, reqs, envelope, resolution, dict, mqtt>>

vars == <<token, refreshToken, userInfo, permissions, ls, menus, routes,
          nav, loginT, appT, refreshT, pushReq, hydrated,
          flat, visible, authErrorShowing, dialogs, reqs,
          envelope, resolution, dict, mqtt>>

\* No call made, nothing fetched, nothing created
NoEnvelope == [pc |-> "none"]

NoResolution == [pc |-> "none"]

EmptyDict == [dictMap |-> {}, loading |-> FALSE]

NoMqtt == [client |-> 0, connected |-> FALSE, messages |-> <<>>, clients |-> <<>>,
           received |-> 0, clearedAt |-> 0]

AuxInit ==
    envelope = NoEnvelope /\ resolution = NoResolution /\ dict = EmptyDict /\ mqtt = NoMqtt

(***************************************************************************)
(* Bounds and input sets                                                   *)
(***************************************************************************)
\* How many distinct access tokens the server hands out
NumTokens == 1

Tokens == {"t" \o ToString(i) : i \in 1..NumTokens}

RefreshTokens == {"r1"}

PermCodes == {"rk:report:list"}

TOKEN_KEY == "wa_token"

REFRESH_TOKEN_KEY == "wa_refresh_token"

USER_INFO_KEY == "wa_user_info"

NullUser == [userId |-> 0, username |-> ""]

\* Payloads of POST /v1/comm/person
PersonData == {[id |-> 1, username |-> "admin"], [id |-> 2, username |-> "bob"]}

UserInfos == {[userId |-> d.id, username |-> d.username] : d \in PersonData}

(***************************************************************************)
(* localStorage                                                            *)
(***************************************************************************)
SetItem(s, k, v) == [x \in (DOMAIN s) \cup {k} |-> IF x = k THEN v ELSE s[x]]

RemoveItem(s, k) == [x \in (DOMAIN s) \ {k} |-> s[x]]

\* localStorage.getItem(k) || d
GetItemOr(s, k, d) == IF k \in DOMAIN s /\ s[k] # "" THEN s[k] ELSE d

JSONstringify(u) ==
    IF u = NullUser THEN "null"
    ELSE "{\"userId\":" \o ToString(u.userId) \o ",\"username\":\"" \o u.username \o "\"}"

JSONparse(s) ==
    IF s = "null" THEN NullUser
    ELSE CHOOSE u \in UserInfos : JSONstringify(u) = s

EmptyStorage == [x \in {} |-> ""]

(***************************************************************************)
(* Menu store                                                              *)
(***************************************************************************)
\* A flat menu record; parentId 0 stands for null (both are falsy in
\* `item.parentId && map.has(item.parentId)`), router/perms "" for undefined.
MenuRK == [id |-> 1, parentId |-> 0, name |-> "RK", router |-> "", perms |-> "",
           type |-> 0, orderNum |-> 1, isShow |-> TRUE, keepAlive |-> FALSE]

MenuReport == [id |-> 2, parentId |-> 1, name |-> "Report", router |-> "/rk/report",
               perms |-> "rk:report:list", type |-> 1, orderNum |-> 1,
               isShow |-> TRUE, keepAlive |-> TRUE]

MenuBoard == [id |-> 3, parentId |-> 1, name |-> "Board", router |-> "/rk/board",
              perms |-> "", type |-> 1, orderNum |-> 2,
              isShow |-> TRUE, keepAlive |-> FALSE]

\* Payloads of POST /v1/comm/menu
MenuLists == {<<>>, <<MenuRK, MenuReport, MenuBoard>>}

IdsOf(items) == {items[i].id : i \in DOMAIN items}

\* first pass of buildMenuTree: map.set(item.id, {...item, children: []});
\* a later record with the same id overwrites an earlier one
MapOf(items) ==
    [k \in IdsOf(items) |->
        items[CHOOSE i \in DOMAIN items :
                 /\ items[i].id = k
                 /\ \A j \in DOMAIN items : items[j].id = k => j <= i]]

HasParent(items, i) ==
    items[i].parentId # 0 /\ items[i].parentId \in IdsOf(items)

\* second pass: the ids pushed on parent p's children, in input order
RECURSIVE ChildrenOf(_, _, _)
ChildrenOf(items, p, n) ==
    IF n = 0 THEN <<>>
    ELSE LET rest == ChildrenOf(items, p, n - 1)
         IN  IF HasParent(items, n) /\ items[n].parentId = p
             THEN Append(rest, items[n].id) ELSE rest

\* second pass: the ids pushed on roots, in input order
RECURSIVE RootsOf(_, _)
RootsOf(items, n) ==
    IF n = 0 THEN <<>>
    ELSE LET rest == RootsOf(items, n - 1)
         IN  IF HasParent(items, n) THEN rest ELSE Append(rest, items[n].id)

\* The tree as the code holds it: the node objects of the map (node), each
\* node's children array (kids) and the returned roots array.
buildMenuTree(items) ==
    [roots |-> RootsOf(items, Len(items)),
     node  |-> MapOf(items),
     kids  |-> [k \in IdsOf(items) |-> ChildrenOf(items, k, Len(items))]]

EmptyTree == buildMenuTree(<<>>)

RouteOf(item) ==
    [name |-> item.name, path |-> item.router, public |-> FALSE,
     perms |-> item.perms, keepAlive |-> item.keepAlive]

RECURSIVE traverse(_, _)
traverse_anyType(tree, ids) ==
    IF ids = <<>> THEN <<>>
    ELSE LET item == tree.node[Head(ids)]
             own  == IF item.router # ""
                     THEN <<RouteOf(item)>> ELSE <<>>
             sub  == IF Len(tree.kids[Head(ids)]) > 0
                     THEN traverse(tree, tree.kids[Head(ids)]) ELSE <<>>
         IN  own \o sub \o traverse(tree, Tail(ids))

\* traverse() of generateRoutes: depth-first, pre-order
traverse(tree, ids) ==
    IF ids = <<>> THEN <<>>
    ELSE LET item == tree.node[Head(ids)]
             own  == IF item.type = 1 /\ item.router # ""
                     THEN <<RouteOf(item)>> ELSE <<>>
             sub  == IF Len(tree.kids[Head(ids)]) > 0
                     THEN traverse(tree, tree.kids[Head(ids)]) ELSE <<>>
         IN  own \o sub \o traverse(tree, Tail(ids))

generateRoutes(tree) == traverse(tree, tree.roots)

(***************************************************************************)
(* Router                                                                  *)
(***************************************************************************)
StaticRoute(n, p, pub) ==
    [name |-> n, path |-> p, public |-> pub, perms |-> "", keepAlive |-> FALSE]

\* staticRoutes and the children of layoutRoute (the thirteen layout
\* children carry the same meta shape; Dashboard and RkSupply stand for them)
staticRoutes ==
    << StaticRoute("Login", "/login", TRUE),
       StaticRoute("403", "/403", TRUE),
       StaticRoute("404", "/404", TRUE),
       StaticRoute("500", "/500", TRUE),
       StaticRoute("Dashboard", "/dashboard", FALSE),
       StaticRoute("RkSupply", "/rk/supply", FALSE) >>

\* router.addRoute('Layout', route): a route whose name is already
\* registered replaces the registered one
addRoute(rs, r) == Append(SelectSeq(rs, LAMBDA x : x.name # r.name), r)

RECURSIVE addRoutes(_, _)
addRoutes(rs, new) ==
    IF new = <<>> THEN rs ELSE addRoutes(addRoute(rs, Head(new)), Tail(new))

RouteTable(rs) == staticRoutes \o rs

\* The locations (path, query string) a navigation may ask for
NavPaths == {"/", "/login", "/dashboard", "/rk/report", "/rk/board", "/nowhere"}

Targets == {<<p, "">> : p \in NavPaths} \cup {<<"/dashboard", "?tab=1">>}

Matches(rs, p) == {i \in DOMAIN RouteTable(rs) : RouteTable(rs)[i].path = p}

\* The route location the guard receives: layoutRoute redirects '/' to
\* '/dashboard', notFoundRoute redirects every unmatched path to '/404'.
Resolve(rs, p, q) ==
    LET p1 == IF p = "/" THEN "/dashboard" ELSE p
        q1 == IF p = "/" THEN "" ELSE q
    IN  IF Matches(rs, p1) = {}
        THEN [path |-> "/404", fullPath |-> "/404", public |-> TRUE, perms |-> ""]
        ELSE LET r == RouteTable(rs)[CHOOSE i \in Matches(rs, p1) :
                                        \A j \in Matches(rs, p1) : i <= j]
             IN  [path |-> p1, fullPath |-> p1 \o q1,
                  public |-> r.public, perms |-> r.perms]

NoTarget == [path |-> "", fullPath |-> "", public |-> FALSE, perms |-> ""]

(***************************************************************************)
(* User store getters                                                      *)
(***************************************************************************)
isLoggedIn == token # ""

isAdmin == userInfo.username = "admin"

hasPermission_noBypass(p) == p \in permissions

hasPermission(p) == IF isAdmin THEN TRUE ELSE p \in permissions

\* perms.some(p => permissions.value.includes(p))
hasAnyPermission(ps) ==
    IF isAdmin THEN TRUE ELSE \E i \in DOMAIN ps : ps[i] \in permissions

\* perms.every(p => permissions.value.includes(p))
hasAllPermissions(ps) ==
    IF isAdmin THEN TRUE ELSE \A i \in DOMAIN ps : ps[i] \in permissions

(***************************************************************************)
(* User store actions (fragments shared by their callers)                  *)
(***************************************************************************)

Session == [token |-> token, refreshToken |-> refreshToken,
            userInfo |-> userInfo, permissions |-> permissions, ls |-> ls]

logoutState_keepRefresh(S) ==
    [token |-> "", refreshToken |-> "", userInfo |-> NullUser, permissions |-> {},
     ls |-> RemoveItem(RemoveItem(S.ls, TOKEN_KEY), USER_INFO_KEY)]

\* logout(): "Clear state", "Clear localStorage"
logoutState(S) ==
    [token |-> "", refreshToken |-> "", userInfo |-> NullUser, permissions |-> {},
     ls |-> RemoveItem(RemoveItem(RemoveItem(S.ls, TOKEN_KEY), REFRESH_TOKEN_KEY),
                       USER_INFO_KEY)]

\* logout(), with its router.push('/login')
logout ==
    /\ token' = logoutState(Session).token
    /\ refreshToken' = logoutState(Session).refreshToken
    /\ userInfo' = logoutState(Session).userInfo
    /\ permissions' = logoutState(Session).permissions
    /\ ls' = logoutState(Session).ls
    /\ pushReq' = pushReq \cup {"/login"}
    /\ hydrated' = {}

\* fetchUserInfo(), from the answer of /v1/comm/person to the next await
fetchUserInfo_person(d) ==
    /\ userInfo' = [userId |-> d.id, username |-> d.username]
    /\ hydrated' = hydrated \cup {"person"}

\* fetchUserInfo(), from the answer of /v1/comm/perms to its return
fetchUserInfo_perms(ps) ==
    /\ permissions' = ps
    /\ ls' = SetItem(ls, USER_INFO_KEY, JSONstringify(userInfo))
    /\ hydrated' = hydrated \cup {"perms"}

(***************************************************************************)
(* Navigation guard (router.beforeEach)                                    *)
(***************************************************************************)
NoOutcome == [kind |-> "none", path |-> "", redirect |-> ""]

Allow == [kind |-> "allow", path |-> "", redirect |-> ""]

RedirectTo(p) == [kind |-> "redirect", path |-> p, redirect |-> ""]

RedirectLogin_path(to) == [kind |-> "redirect", path |-> "/login", redirect |-> to.path]

\* next({ path: '/login', query: { redirect: to.fullPath } })
RedirectLogin(to) == [kind |-> "redirect", path |-> "/login", redirect |-> to.fullPath]

\* next({ ...to, replace: true })
Redispatch(to) == [kind |-> "redispatch", path |-> to.path, redirect |-> ""]

Await == [kind |-> "await", path |-> "", redirect |-> ""]

permissionStep_allow(to) == Allow

\* "Check permission if required"
permissionStep(to) ==
    IF to.perms # "" /\ ~hasPermission(to.perms) THEN RedirectTo("/403") ELSE Allow

beforeEach_noHome(to) ==
    IF to.public THEN Allow
    ELSE IF ~isLoggedIn THEN RedirectLogin(to)
    ELSE IF userInfo = NullUser THEN Await
    ELSE permissionStep(to)

\* The guard up to its first await: the argument of next(), or Await when
\* it goes on to fetch
beforeEach(to) ==
    IF to.public
    THEN IF to.path = "/login" /\ isLoggedIn THEN RedirectTo("/") ELSE Allow
    ELSE IF ~isLoggedIn THEN RedirectLogin(to)
    ELSE IF userInfo = NullUser THEN Await
    ELSE permissionStep(to)

\* setupGuards of the codex front end, for auth.token = tok
setupGuards(to, tok) ==
    IF to.public
    THEN IF tok # "" /\ to.path = "/login" THEN RedirectTo("/") ELSE Allow
    ELSE IF tok = "" THEN RedirectLogin(to)
    ELSE Allow

IdleNav == [pc |-> "idle", to |-> NoTarget, outcome |-> NoOutcome, log |-> <<>>]

Done(i, o, evs) ==
    nav' = [nav EXCEPT ![i].pc = "done", ![i].outcome = o,
                       ![i].log = nav[i].log \o evs]

Goto(i, pc, evs) ==
    nav' = [nav EXCEPT ![i].pc = pc, ![i].log = nav[i].log \o evs]

\* A navigation is dispatched and the guard runs to next() or to its
\* first await (userStore.fetchUserInfo issues /v1/comm/person)
Navigate(i, p, q) ==
    /\ nav[i].pc = "idle"
    /\ LET to == Resolve(routes, p, q)
           d  == beforeEach(to)
       IN  nav' = [nav EXCEPT ![i] =
                      IF d = Await
                      THEN [pc |-> "person", to |-> to, outcome |-> NoOutcome,
                            log |-> <<"person:issued">>]
                      ELSE [pc |-> "done", to |-> to, outcome |-> d, log |-> <<>>]]
    /\ pushReq' = pushReq \ {p}
    /\ UNCHANGED extVars
    /\ UNCHANGED <<token, refreshToken, userInfo, permissions, ls, menus, routes,
                   loginT, appT, refreshT, hydrated>>

GuardCatch_nologout(i) ==
    /\ Done(i, RedirectTo("/login"), <<"failed">>)
    /\ UNCHANGED extVars
    /\ UNCHANGED <<token, refreshToken, userInfo, permissions, ls, pushReq, hydrated,
                   menus, routes, loginT, appT, refreshT>>

\* catch (error) { userStore.logout(); next('/login') }
GuardCatch(i) ==
    /\ logout
    /\ Done(i, RedirectTo("/login"), <<"failed">>)
    /\ UNCHANGED extVars
    /\ UNCHANGED <<menus, routes, loginT, appT, refreshT>>

GuardPersonOK_menuFirst(i, d) ==
    /\ nav[i].pc = "person"
    /\ fetchUserInfo_person(d)
    /\ Goto(i, "menu", <<"person:done", "menu:issued">>)
    /\ UNCHANGED extVars
    /\ UNCHANGED <<token, refreshToken, permissions, ls, menus, routes,
                   loginT, appT, refreshT, pushReq>>

\* fetchUserInfo gets the profile and issues /v1/comm/perms
GuardPersonOK(i, d) ==
    /\ nav[i].pc = "person"
    /\ fetchUserInfo_person(d)
    /\ Goto(i, "perms", <<"person:done", "perms:issued">>)
    /\ UNCHANGED extVars
    /\ UNCHANGED <<token, refreshToken, permissions, ls, menus, routes,
                   loginT, appT, refreshT, pushReq>>

GuardPersonFail(i) ==
    /\ nav[i].pc = "person"
    /\ GuardCatch(i)

\* fetchUserInfo returns and menuStore.fetchMenus issues /v1/comm/menu
GuardPermsOK(i, ps) ==
    /\ nav[i].pc = "perms"
    /\ fetchUserInfo_perms(ps)
    /\ Goto(i, "menu", <<"perms:done", "menu:issued">>)
    /\ UNCHANGED extVars
    /\ UNCHANGED <<token, refreshToken, userInfo, menus, routes,
                   loginT, appT, refreshT, pushReq>>

GuardPermsFail(i) ==
    /\ nav[i].pc = "perms"
    /\ GuardCatch(i)

\* fetchMenus returns, the generated routes are added, the target is
\* dispatched again
GuardMenuOK(i, items) ==
    /\ nav[i].pc = "menu"
    /\ menus' = buildMenuTree(items)
    /\ routes' = addRoutes(routes, generateRoutes(menus'))
    /\ hydrated' = hydrated \cup {"menu", "routes"}
    /\ Done(i, Redispatch(nav[i].to), <<"menu:done", "routes:added", "redispatch">>)
    /\ UNCHANGED extVars
    /\ UNCHANGED <<token, refreshToken, userInfo, permissions, ls,
                   loginT, appT, refreshT, pushReq>>

GuardMenuFail(i) ==
    /\ nav[i].pc = "menu"
    /\ GuardCatch(i)

\* The navigation that next() decided is over (router.afterEach, or the
\* redirect it was turned into has been dispatched)
AfterEach(i) ==
    /\ nav[i].pc = "done"
    /\ nav' = [nav EXCEPT ![i] = IdleNav]
    /\ UNCHANGED extVars
    /\ UNCHANGED <<token, refreshToken, userInfo, permissions, ls, menus, routes,
                   loginT, appT, refreshT, pushReq, hydrated>>

(***************************************************************************)
(* login(), called by handleLogin of the login view                        *)
(***************************************************************************)
IdleLogin == [pc |-> "idle", changed |-> FALSE]

\* changed: has a step of this login() call written to the session
LoginStep(pc) ==
    loginT' = [pc |-> pc, changed |-> loginT.changed \/ Session' # Session]

\* login() has thrown or returned
LoginEnd == loginT' = IdleLogin

LoginStart ==
    /\ loginT.pc = "idle"
    /\ loginT' = [pc |-> "cred", changed |-> FALSE]
    /\ UNCHANGED extVars
    /\ UNCHANGED <<token, refreshToken, userInfo, permissions, ls, menus, routes,
                   nav, appT, refreshT, pushReq, hydrated>>

\* /v1/open/login answers: "Save tokens", then fetchUserInfo() is called
LoginCredOK(t, r) ==
    /\ loginT.pc = "cred"
    /\ token' = t
    /\ refreshToken' = r
    /\ ls' = LET s1 == SetItem(ls, TOKEN_KEY, t)
             IN  IF r # "" THEN SetItem(s1, REFRESH_TOKEN_KEY, r) ELSE s1
    /\ hydrated' = {}
    /\ UNCHANGED extVars
    /\ UNCHANGED <<userInfo, permissions, menus, routes, nav, appT, refreshT, pushReq>>
    /\ LoginStep("person")

\* the rejection reaches handleLogin's catch
LoginCredFail ==
    /\ loginT.pc = "cred"
    /\ UNCHANGED extVars
    /\ UNCHANGED <<token, refreshToken, userInfo, permissions, ls, menus, routes,
                   nav, appT, refreshT, pushReq, hydrated>>
    /\ LoginEnd

LoginPersonOK(d) ==
    /\ loginT.pc = "person"
    /\ fetchUserInfo_person(d)
    /\ UNCHANGED extVars
    /\ UNCHANGED <<token, refreshToken, permissions, ls, menus, routes,
                   nav, appT, refreshT, pushReq>>
    /\ LoginStep("perms")

LoginPersonFail ==
    /\ loginT.pc = "person"
    /\ UNCHANGED extVars
    /\ UNCHANGED <<token, refreshToken, userInfo, permissions, ls, menus, routes,
                   nav, appT, refreshT, pushReq, hydrated>>
    /\ LoginEnd

\* login() returns
LoginPermsOK(ps) ==
    /\ loginT.pc = "perms"
    /\ fetchUserInfo_perms(ps)
    /\ UNCHANGED extVars
    /\ UNCHANGED <<token, refreshToken, userInfo, menus, routes, nav, appT, refreshT,
                   pushReq>>
    /\ LoginEnd

LoginPermsFail ==
    /\ loginT.pc = "perms"
    /\ UNCHANGED extVars
    /\ UNCHANGED <<token, refreshToken, userInfo, permissions, ls, menus, routes,
                   nav, appT, refreshT, pushReq, hydrated>>
    /\ LoginEnd

(***************************************************************************)
(* App.vue onMounted                                                       *)
(***************************************************************************)
\* onMounted runs inside app.mount(), before the guard of the initial
\* navigation gets to run: it is part of the page load.  With a token it
\* issues /v1/comm/person.
AppMounted(tok) == IF tok # "" THEN "person" ELSE "done"

AppPersonOK(d) ==
    /\ appT = "person"
    /\ fetchUserInfo_person(d)
    /\ appT' = "perms"
    /\ UNCHANGED extVars
    /\ UNCHANGED <<token, refreshToken, permissions, ls, menus, routes,
                   nav, loginT, refreshT, pushReq>>

AppPermsOK(ps) ==
    /\ appT = "perms"
    /\ fetchUserInfo_perms(ps)
    /\ appT' = "done"
    /\ UNCHANGED extVars
    /\ UNCHANGED <<token, refreshToken, userInfo, menus, routes,
                   nav, loginT, refreshT, pushReq>>

\* catch (e) { userStore.logout() }
AppFail ==
    /\ appT \in {"person", "perms"}
    /\ logout
    /\ appT' = "done"
    /\ UNCHANGED extVars
    /\ UNCHANGED <<menus, routes, nav, loginT, refreshT>>

(***************************************************************************)
(* refreshUserToken()                                                      *)
(***************************************************************************)
IdleRefresh == "idle"

\* throws 'No refresh token' or issues /v1/open/refreshToken
RefreshStart ==
    /\ refreshT = "idle"
    /\ refreshT' = IF refreshToken = "" THEN "idle" ELSE "req"
    /\ UNCHANGED extVars
    /\ UNCHANGED <<token, refreshToken, userInfo, permissions, ls, menus, routes,
                   nav, loginT, appT, pushReq, hydrated>>

RefreshOK(t, r) ==
    /\ refreshT = "req"
    /\ token' = t
    /\ refreshToken' = IF r # "" THEN r ELSE refreshToken
    /\ ls' = LET s1 == SetItem(ls, TOKEN_KEY, t)
             IN  IF r # "" THEN SetItem(s1, REFRESH_TOKEN_KEY, r) ELSE s1
    /\ refreshT' = "idle"
    /\ UNCHANGED extVars
    /\ UNCHANGED <<userInfo, permissions, menus, routes, nav, loginT, appT,
                   pushReq, hydrated>>

\* the rejection propagates to the caller
RefreshFail ==
    /\ refreshT = "req"
    /\ refreshT' = "idle"
    /\ UNCHANGED extVars
    /\ UNCHANGED <<token, refreshToken, userInfo, permissions, ls, menus, routes,
                   nav, loginT, appT, pushReq, hydrated>>

(***************************************************************************)
(* The user and the page                                                   *)
(***************************************************************************)
\* handleLogout of the layout header, once confirmed
UserLogout ==
    /\ logout
    /\ UNCHANGED extVars
    /\ UNCHANGED <<menus, routes, nav, loginT, appT, refreshT>>

\* The page is loaded again: every store is constructed anew, the user
\* store from localStorage; requests in flight are gone
Reload ==
    /\ token' = GetItemOr(ls, TOKEN_KEY, "")
    /\ refreshToken' = GetItemOr(ls, REFRESH_TOKEN_KEY, "")
    /\ userInfo' = JSONparse(GetItemOr(ls, USER_INFO_KEY, "null"))
    /\ permissions' = {}
    /\ menus' = EmptyTree
    /\ routes' = <<>>
    /\ nav' = [i \in DOMAIN nav |-> IdleNav]
    /\ loginT' = IdleLogin
    /\ appT' = AppMounted(token')
    /\ refreshT' = IdleRefresh
    /\ pushReq' = {}
    /\ hydrated' = {}
    /\ UNCHANGED extVars
    /\ UNCHANGED ls

Init ==
    /\ ls = EmptyStorage
    /\ token = GetItemOr(ls, TOKEN_KEY, "")
    /\ refreshToken = GetItemOr(ls, REFRESH_TOKEN_KEY, "")
    /\ userInfo = JSONparse(GetItemOr(ls, USER_INFO_KEY, "null"))
    /\ permissions = {}
    /\ menus = EmptyTree
    /\ routes = <<>>
    /\ nav = [i \in {1} |-> IdleNav]
    /\ loginT = IdleLogin
    /\ appT = AppMounted(token)
    /\ refreshT = IdleRefresh
    /\ pushReq = {}
    /\ hydrated = {}
    /\ flat = <<>>
    /\ visible = <<>>
    /\ authErrorShowing = FALSE
    /\ dialogs = 0
    /\ reqs = <<>>
    /\ AuxInit

Next ==
    \/ \E i \in DOMAIN nav, t \in Targets : Navigate(i, t[1], t[2])
    \/ \E i \in DOMAIN nav, d \in PersonData : GuardPersonOK(i, d)
    \/ \E i \in DOMAIN nav : GuardPersonFail(i)
    \/ \E i \in DOMAIN nav, ps \in SUBSET PermCodes : GuardPermsOK(i, ps)
    \/ \E i \in DOMAIN nav : GuardPermsFail(i)
    \/ \E i \in DOMAIN nav, items \in MenuLists : GuardMenuOK(i, items)
    \/ \E i \in DOMAIN nav : GuardMenuFail(i)
    \/ \E i \in DOMAIN nav : AfterEach(i)
    \/ LoginStart
    \/ \E t \in Tokens, r \in RefreshTokens \cup {""} : LoginCredOK(t, r)
    \/ LoginCredFail
    \/ \E d \in PersonData : LoginPersonOK(d)
    \/ LoginPersonFail
    \/ \E ps \in SUBSET PermCodes : LoginPermsOK(ps)
    \/ LoginPermsFail
    \/ \E d \in PersonData : AppPersonOK(d)
    \/ \E ps \in SUBSET PermCodes : AppPermsOK(ps)
    \/ AppFail
    \/ RefreshStart
    \/ \E t \in Tokens, r \in RefreshTokens \cup {""} : RefreshOK(t, r)
    \/ RefreshFail
    \/ UserLogout
    \/ Reload

Spec == Init /\ [][Next]_vars

TypeOK ==
    /\ token \in Tokens \cup {""}
    /\ refreshToken \in RefreshTokens \cup {""}
    /\ userInfo \in UserInfos \cup {NullUser}
    /\ permissions \subseteq PermCodes
    /\ DOMAIN ls \subseteq {TOKEN_KEY, REFRESH_TOKEN_KEY, USER_INFO_KEY}
    /\ pushReq \subseteq NavPaths
    /\ appT \in {"person", "perms", "done"}

(***************************************************************************)
(* Properties                                                              *)
(***************************************************************************)
AllKeys == {TOKEN_KEY, REFRESH_TOKEN_KEY, USER_INFO_KEY}

Last(q) == q[Len(q)]

InFlight == {"person", "perms", "menu"}

\* Session artifacts cleared in memory and in durable storage
Cleared ==
    /\ token = "" /\ refreshToken = "" /\ userInfo = NullUser
    /\ DOMAIN ls \cap AllKeys = {}

\* The guard of navigation i has just called next() (in this step)
Decided(i) == nav[i].pc # "done" /\ nav'[i].pc = "done"

\* Navigation i has just been dispatched and the guard has run its
\* synchronous part (in this step)
Entered(i) == nav[i].pc = "idle" /\ nav'[i].pc # "idle"

\* C1: whenever the guard plainly allows a navigation to a non-public
\* route, profile, permissions and menu list have been fetched in this
\* session and the routes generated from the menu are registered.
C1_AllowImpliesHydrated ==
    [][\A i \in DOMAIN nav :
          (Decided(i) /\ nav'[i].outcome = Allow /\ ~nav'[i].to.public)
          => /\ {"person", "perms", "menu", "routes"} \subseteq hydrated'
             /\ \A k \in DOMAIN generateRoutes(menus') :
                   \E j \in DOMAIN routes' : routes'[j] = generateRoutes(menus')[k]]_vars

\* C2: a navigation to a non-public route with no token held is redirected
\* to /login with query redirect = the full path asked for; it is not
\* allowed and no hydration request is issued (both guards).
C2_UnauthenticatedRedirect ==
    [][\A i \in DOMAIN nav :
          (Entered(i) /\ ~nav'[i].to.public /\ token = "")
          => /\ nav'[i].pc = "done"
             /\ nav'[i].log = <<>>
             /\ nav'[i].outcome = [kind |-> "redirect", path |-> "/login",
                                   redirect |-> nav'[i].to.fullPath]
             /\ setupGuards(nav'[i].to, token) = nav'[i].outcome]_vars

C2_Witness ==
    \E i \in DOMAIN nav :
        /\ nav[i].pc = "done" /\ nav[i].to.fullPath = "/dashboard?tab=1"
        /\ nav[i].outcome.path = "/login"
        /\ nav[i].outcome.redirect = "/dashboard?tab=1"

\* C3: at the permission step (non-public target, token held, profile
\* present) the outcome is a redirect to /403 when the route declares a
\* permission that hasPermission denies, and plain allow otherwise.
C3_PermissionStep ==
    [][\A i \in DOMAIN nav :
          (Entered(i) /\ ~nav'[i].to.public /\ token # "" /\ userInfo # NullUser)
          => /\ nav'[i].pc = "done"
             /\ nav'[i].outcome =
                  IF nav'[i].to.perms # "" /\ ~hasPermission(nav'[i].to.perms)
                  THEN [kind |-> "redirect", path |-> "/403", redirect |-> ""]
                  ELSE Allow]_vars

C3_Witness ==
    \E i \in DOMAIN nav :
        /\ nav[i].pc = "done" /\ nav[i].to.perms = "rk:report:list"
        /\ nav[i].outcome.path = "/403"
        /\ userInfo.username = "bob" /\ permissions = {}

\* C4: when a hydration request of the guard fails (profile, permissions
\* or menu list), the session is logged out (memory and storage cleared)
\* and the outcome is a redirect to /login; a navigation that awaited a
\* hydration request is never plainly allowed.
C4_HydrationFailure ==
    [][\A i \in DOMAIN nav :
          (nav[i].pc \in InFlight /\ nav'[i].pc = "done")
          => /\ nav'[i].outcome # Allow
             /\ (Last(nav'[i].log) = "failed"
                 => /\ Cleared' /\ permissions' = {}
                    /\ nav'[i].outcome = [kind |-> "redirect", path |-> "/login",
                                          redirect |-> ""])]_vars

C4_Witness ==
    \E i \in DOMAIN nav :
        /\ nav[i].pc = "done"
        /\ nav[i].log = <<"person:issued", "person:done", "perms:issued",
                          "perms:done", "menu:issued", "failed">>
        /\ nav[i].outcome.path = "/login"
        /\ Cleared

FullLog == <<"person:issued", "person:done", "perms:issued", "perms:done",
             "menu:issued", "menu:done", "routes:added", "redispatch">>

\* C5: a hydrating guard sees, in this order: profile fetched, permissions
\* requested and fetched, menu list requested and fetched, routes added,
\* the target dispatched again (not continued).
C5_HydrationOrder ==
    \A i \in DOMAIN nav :
        /\ nav[i].pc = "person" => nav[i].log = SubSeq(FullLog, 1, 1)
        /\ nav[i].pc = "perms" => nav[i].log = SubSeq(FullLog, 1, 3)
        /\ nav[i].pc = "menu" => nav[i].log = SubSeq(FullLog, 1, 5)
        /\ (nav[i].pc = "done" /\ nav[i].log # <<>> /\ Last(nav[i].log) # "failed")
           => /\ nav[i].log = FullLog
              /\ nav[i].outcome = [kind |-> "redispatch", path |-> nav[i].to.path,
                                   redirect |-> ""]
              /\ \A k \in DOMAIN generateRoutes(menus) :
                    \E j \in DOMAIN routes : routes[j] = generateRoutes(menus)[k]

C5_Witness ==
    \E i \in DOMAIN nav :
        /\ nav[i].outcome.kind = "redispatch" /\ nav[i].log = FullLog
        /\ Len(routes) = 2

\* C6: a navigation to a public route is allowed at once, with no request,
\* except /login with a token held, which is redirected to '/' (both
\* guards).
C6_PublicRoute ==
    [][\A i \in DOMAIN nav :
          (Entered(i) /\ nav'[i].to.public)
          => /\ nav'[i].pc = "done"
             /\ nav'[i].log = <<>>
             /\ nav'[i].outcome =
                  IF nav'[i].to.path = "/login" /\ token # ""
                  THEN [kind |-> "redirect", path |-> "/", redirect |-> ""]
                  ELSE Allow
             /\ setupGuards(nav'[i].to, token) = nav'[i].outcome]_vars

C6_Witness ==
    \E i \in DOMAIN nav :
        /\ nav[i].pc = "done" /\ nav[i].to.path = "/login"
        /\ nav[i].outcome.kind = "redirect" /\ nav[i].outcome.path = "/"

Quiescent ==
    /\ loginT.pc = "idle" /\ appT = "done" /\ refreshT = "idle"
    /\ \A i \in DOMAIN nav : nav[i].pc \notin InFlight

\* C7: once the store operations have completed or failed, token and
\* profile are both present or both absent.
C7_TokenIffProfile ==
    Quiescent => (token # "" <=> userInfo # NullUser)

\* C8: a login() that fails leaves token, refresh token, profile,
\* permissions and their persisted copies as they were before the call.
C8_FailedLoginLeavesSession ==
    [][(LoginCredFail \/ LoginPersonFail \/ LoginPermsFail)
       => (~loginT.changed /\ Session' = Session)]_vars

\* C9: a failed token refresh ends in logout: token, refresh token and
\* profile cleared in memory and in durable storage.
C9_FailedRefreshLogsOut ==
    [][RefreshFail => Cleared']_vars

\* C10: logout() in any session state clears token, refresh token, profile
\* and permissions, removes the three persisted keys and requests
\* navigation to /login; a second logout() changes nothing more.
C10_LogoutIdempotent ==
    [][/\ LET a == logoutState(Session)
              b == logoutState(a)
          IN  /\ a.token = "" /\ a.refreshToken = "" /\ a.userInfo = NullUser
              /\ a.permissions = {}
              /\ DOMAIN a.ls \cap AllKeys = {}
              /\ b = a
       /\ UserLogout => /\ Session' = logoutState(Session)
                        /\ "/login" \in pushReq'
                        /\ (Cleared /\ permissions = {} => Session' = Session)]_vars

C10_Witness ==
    /\ Cleared /\ permissions = {} /\ "/login" \in pushReq
    /\ routes # <<>>

\* Each persisted key equals the in-memory value it stands for, an absent
\* key standing for '' / null
Mirror ==
    /\ GetItemOr(ls, TOKEN_KEY, "") = token
    /\ GetItemOr(ls, REFRESH_TOKEN_KEY, "") = refreshToken
    /\ JSONparse(GetItemOr(ls, USER_INFO_KEY, "null")) = userInfo

\* C11: once login, fetchUserInfo, refreshUserToken and logout have done
\* their writes, wa_token, wa_refresh_token and wa_user_info mirror token,
\* refreshToken and userInfo.
C11_StorageMirrorsMemory ==
    Quiescent => Mirror

\* Permission codes and lists of codes asked of the evaluators
AskedCodes == PermCodes \cup {"", "unknown"}

AskedLists == {<<>>} \cup {<<c>> : c \in AskedCodes}
                 \cup {<<c, d>> : c \in AskedCodes, d \in AskedCodes}

\* C18: an administrator session answers true to hasPermission,
\* hasAnyPermission and hasAllPermissions whatever is asked and granted; any
\* other session answers by membership in the granted set.
C18_PermissionEvaluators ==
    \A c \in AskedCodes, cs \in AskedLists :
        IF userInfo.username = "admin"
        THEN hasPermission(c) /\ hasAnyPermission(cs) /\ hasAllPermissions(cs)
        ELSE /\ hasPermission(c) <=> c \in permissions
             /\ hasAnyPermission(cs) <=> \E i \in DOMAIN cs : cs[i] \in permissions
             /\ ~hasAllPermissions(cs) <=> \E i \in DOMAIN cs : cs[i] \notin permissions

C18_Witness ==
    /\ userInfo.username = "admin" /\ permissions = {}
    /\ hasPermission("unknown") /\ hasAllPermissions(<<"", "unknown">>)

\* C23: the menu tree lives one session: logout() leaves the menu store
\* without a tree, and no login begins a session with a tree in it.
C23_MenuTreeLivesOneSession ==
    [][/\ UserLogout => menus' = EmptyTree
       /\ (\E t \in Tokens, r \in RefreshTokens \cup {""} : LoginCredOK(t, r))
            => menus' = EmptyTree]_vars

\* C27: with the session cleared by logout() and no new login started, the
\* completion of a request that was in flight (fetchUserInfo of login(),
\* of App.vue or of the guard, the refresh request) writes nothing back:
\* the session stays cleared.  (A cleared session with a call past its
\* first request is one that logout() cleared while the call was pending.)
C27_NoWriteBackAfterLogout ==
    [][(Cleared /\ permissions = {} /\ loginT.pc # "cred")
         => (Cleared' /\ permissions' = {})]_vars

(***************************************************************************)
(* Menu store on arbitrary flat lists                                      *)
(***************************************************************************)
\* Longest flat menu list
MaxItems == 3

\* The kinds of record a list is made of: directory, page with a path and
\* a permission, hidden page, permission-only marker, page without a path.
\* Two pages may carry the same display name.
MenuKinds ==
    << [type |-> 0, router |-> FALSE, perms |-> "", orderNum |-> 2,
        isShow |-> TRUE, keepAlive |-> FALSE, name |-> ""],
       [type |-> 1, router |-> TRUE, perms |-> "rk:report:list", orderNum |-> 1,
        isShow |-> TRUE, keepAlive |-> TRUE, name |-> "List"],
       [type |-> 1, router |-> TRUE, perms |-> "", orderNum |-> 1,
        isShow |-> FALSE, keepAlive |-> FALSE, name |-> "List"],
       [type |-> 2, router |-> TRUE, perms |-> "rk:report:add", orderNum |-> 2,
        isShow |-> TRUE, keepAlive |-> FALSE, name |-> ""],
       [type |-> 1, router |-> FALSE, perms |-> "", orderNum |-> 2,
        isShow |-> TRUE, keepAlive |-> FALSE, name |-> ""] >>

\* The record at position i: its id is i, its parent par, its kind k
MenuItem(i, par, k) ==
    [id |-> i, parentId |-> par,
     name |-> IF MenuKinds[k].name = "" THEN "M" \o ToString(i) ELSE MenuKinds[k].name,
     router |-> IF MenuKinds[k].router THEN "/p" \o ToString(i) ELSE "",
     perms |-> MenuKinds[k].perms, type |-> MenuKinds[k].type,
     orderNum |-> MenuKinds[k].orderNum, isShow |-> MenuKinds[k].isShow,
     keepAlive |-> MenuKinds[k].keepAlive]

\* The choices a flat list of n records is made from: for each position a
\* kind and a parent reference, which is null (0), any record of the list
\* (itself included, so cycles too) or a record that is not there (n + 1)
FlatChoices(n) == [1..n -> (0..(n + 1)) \X DOMAIN MenuKinds]

\* The flat list of n records made from the choices c
FlatList(n, c) == [i \in 1..n |-> MenuItem(i, c[i][1], c[i][2])]

\* items.sort((a, b) => a.orderNum - b.orderNum): stable
RECURSIVE SortByOrder(_)
InsertByOrder(x, sorted) ==
    LET before == SelectSeq(sorted, LAMBDA y : y.item.orderNum <= x.item.orderNum)
        after  == SelectSeq(sorted, LAMBDA y : y.item.orderNum > x.item.orderNum)
    IN  before \o <<x>> \o after

SortByOrder(q) ==
    IF q = <<>> THEN <<>>
    ELSE InsertByOrder(q[Len(q)], SortByOrder(SubSeq(q, 1, Len(q) - 1)))

RECURSIVE filterVisibleMenus(_, _)
RECURSIVE MapFilter(_, _)
MapFilter_ignoreType(tree, ids) ==
    IF ids = <<>> THEN <<>>
    ELSE LET it == tree.node[Head(ids)]
         IN  (IF it.isShow
              THEN <<[item |-> it,
                      children |-> filterVisibleMenus(tree, tree.kids[Head(ids)])]>>
              ELSE <<>>) \o MapFilter(tree, Tail(ids))

\* .filter(item => item.isShow && item.type !== 2).map(item => ({...item,
\* children: filterVisibleMenus(item.children)})): new arrays, new objects
MapFilter(tree, ids) ==
    IF ids = <<>> THEN <<>>
    ELSE LET it == tree.node[Head(ids)]
         IN  (IF it.isShow /\ it.type # 2
              THEN <<[item |-> it,
                      children |-> filterVisibleMenus(tree, tree.kids[Head(ids)])]>>
              ELSE <<>>) \o MapFilter(tree, Tail(ids))

\* filterVisibleMenus(items), items being the array of the nodes ids
filterVisibleMenus(tree, ids) == SortByOrder(MapFilter(tree, ids))

MenusAfterFilter_sortInPlace(tree) ==
    LET SortIds(ids) ==
            LET q == SortByOrder([i \in DOMAIN ids |-> [item |-> tree.node[ids[i]]]])
            IN  [i \in DOMAIN q |-> q[i].item.id]
    IN  [roots |-> SortIds(tree.roots), node |-> tree.node,
         kids |-> [k \in DOMAIN tree.kids |-> SortIds(tree.kids[k])]]

\* What filterVisibleMenus leaves in the arrays and objects it was given:
\* filter and map allocate, the spread copies each node, and sort works on
\* the array map returned
MenusAfterFilter(tree) == tree

\* fetchMenus on the flat list, then the guard's generateRoutes / addRoute
\* loop
HydrateMenus ==
    /\ flat # <<>> /\ menus = EmptyTree
    /\ menus' = buildMenuTree(flat)
    /\ routes' = addRoutes(routes, generateRoutes(menus'))
    /\ UNCHANGED <<token, refreshToken, userInfo, permissions, ls, nav, loginT, appT,
                   refreshT, pushReq, hydrated, flat, visible, authErrorShowing,
                   dialogs, reqs>>
    /\ UNCHANGED auxVars

\* visibleMenus is evaluated (the sidebar renders)
EvalVisible ==
    /\ menus # EmptyTree
    /\ visible' = filterVisibleMenus(menus, menus.roots)
    /\ menus' = MenusAfterFilter(menus)
    /\ UNCHANGED <<token, refreshToken, userInfo, permissions, ls, routes, nav, loginT,
                   appT, refreshT, pushReq, hydrated, flat, authErrorShowing,
                   dialogs, reqs>>
    /\ UNCHANGED auxVars

\* generateRoutes / addRoute run once more on the same tree
Resynthesize ==
    /\ menus # EmptyTree
    /\ routes' = addRoutes(routes, generateRoutes(menus))
    /\ UNCHANGED <<token, refreshToken, userInfo, permissions, ls, menus, nav, loginT,
                   appT, refreshT, pushReq, hydrated, flat, visible, authErrorShowing,
                   dialogs, reqs>>
    /\ UNCHANGED auxVars

InitMenu ==
    /\ ls = EmptyStorage
    /\ token = "" /\ refreshToken = "" /\ userInfo = NullUser /\ permissions = {}
    /\ menus = EmptyTree
    /\ routes = <<>>
    /\ nav = [i \in {1} |-> IdleNav]
    /\ loginT = IdleLogin /\ appT = "done" /\ refreshT = IdleRefresh
    /\ pushReq = {} /\ hydrated = {}
    /\ \E n \in 1..MaxItems : \E c \in FlatChoices(n) :
          flat = FlatList(n, c)
    /\ visible = <<>>
    /\ authErrorShowing = FALSE /\ dialogs = 0 /\ reqs = <<>>
    /\ AuxInit

NextMenu == HydrateMenus \/ EvalVisible \/ Resynthesize

SpecMenu == InitMenu /\ [][NextMenu]_vars

(***************************************************************************)
(* Properties of the menu store                                            *)
(***************************************************************************)
Range(q) == {q[i] : i \in DOMAIN q}

\* Pre-order flattening of the forest under the ids
RECURSIVE Preorder(_, _)
Preorder(tree, ids) ==
    IF ids = <<>> THEN <<>>
    ELSE <<Head(ids)>> \o Preorder(tree, tree.kids[Head(ids)])
                       \o Preorder(tree, Tail(ids))

ForestIds(tree) == Range(Preorder(tree, tree.roots))

\* Pre-order flattening of a filtered tree
RECURSIVE FlattenVisible(_)
FlattenVisible(q) ==
    IF q = <<>> THEN <<>>
    ELSE <<Head(q).item.id>> \o FlattenVisible(Head(q).children)
                             \o FlattenVisible(Tail(q))

\* Siblings in non-decreasing orderNum order, ties in input order (the id
\* of a record is its position in the flat list)
LevelSorted(items) ==
    \A i, j \in DOMAIN items : i < j =>
        \/ items[i].orderNum < items[j].orderNum
        \/ items[i].orderNum = items[j].orderNum /\ items[i].id < items[j].id

ItemsOf(tree, ids) == [i \in DOMAIN ids |-> tree.node[ids[i]]]

TreeSorted(tree) ==
    /\ LevelSorted(ItemsOf(tree, tree.roots))
    /\ \A k \in ForestIds(tree) : LevelSorted(ItemsOf(tree, tree.kids[k]))

RECURSIVE VisibleSorted(_)
VisibleSorted(q) ==
    /\ LevelSorted([i \in DOMAIN q |-> q[i].item])
    /\ \A i \in DOMAIN q : VisibleSorted(q[i].children)

Navigable(item) == item.type = 1 /\ item.router # ""

Retained(item) == item.isShow /\ item.type # 2

\* A node of the forest and its ancestors
RECURSIVE SelfAndAncestors(_, _)
SelfAndAncestors(tree, id) ==
    IF id \in Range(tree.roots) THEN {id}
    ELSE {id} \cup SelfAndAncestors(tree, tree.node[id].parentId)

ExpectedVisible(tree) ==
    {id \in ForestIds(tree) :
        \A a \in SelfAndAncestors(tree, id) : Retained(tree.node[a])}

\* The nodes of a filtered level are copies of retained nodes among ids,
\* and their children are exactly their retained children
RECURSIVE VisibleShape(_, _, _)
VisibleShape(q, tree, ids) ==
    /\ {q[i].item.id : i \in DOMAIN q} = {x \in Range(ids) : Retained(tree.node[x])}
    /\ \A i \in DOMAIN q :
         /\ q[i].item = tree.node[q[i].item.id]
         /\ VisibleShape(q[i].children, tree, tree.kids[q[i].item.id])

\* C14: building the tree and flattening it in pre-order gives back every
\* identifier of the flat list exactly once, and a record whose parent is
\* not in the list is a root.
C14_FlattenIsPermutation ==
    menus # EmptyTree =>
        LET pre == Preorder(menus, menus.roots)
        IN  /\ Len(pre) = Len(flat)
            /\ Range(pre) = IdsOf(flat)
            /\ \A i \in DOMAIN flat :
                 flat[i].parentId \notin IdsOf(flat) => flat[i].id \in Range(menus.roots)

\* C15: at every level of the unfiltered tree and of the filtered tree the
\* siblings are in non-decreasing orderNum order, ties in input order.
C15_SiblingsOrdered ==
    menus # EmptyTree => TreeSorted(menus) /\ VisibleSorted(visible)

\* C16: generateRoutes yields, in pre-order, one descriptor for each node of
\* type 1 with a non-empty router and no other, with the node's router as
\* path and the node's perms and keepAlive.
C16_OneRoutePerNavigableNode ==
    menus # EmptyTree =>
        LET ids == SelectSeq(Preorder(menus, menus.roots),
                             LAMBDA x : Navigable(menus.node[x]))
            out == generateRoutes(menus)
        IN  /\ Len(out) = Len(ids)
            /\ \A k \in DOMAIN out :
                 /\ out[k].path = menus.node[ids[k]].router
                 /\ out[k].perms = menus.node[ids[k]].perms
                 /\ out[k].keepAlive = menus.node[ids[k]].keepAlive
                 /\ out[k].name = menus.node[ids[k]].name

C16_Witness ==
    /\ menus # EmptyTree
    /\ Len(generateRoutes(menus)) > 0
    /\ \E d \in ForestIds(menus) :
         /\ menus.node[d].type = 0
         /\ \E c \in Range(menus.kids[d]) : Navigable(menus.node[c])
    /\ \E x \in ForestIds(menus) : menus.node[x].type = 2 /\ menus.node[x].router # ""

NavigableCount(tree) ==
    Cardinality({x \in ForestIds(tree) : Navigable(tree.node[x])})

\* C17: after the first synthesis and registration the route table holds
\* the static routes and one route per navigable node, and a second run
\* leaves its size unchanged.
C17_RouteTableSize ==
    [][/\ HydrateMenus =>
            Len(RouteTable(routes')) = Len(staticRoutes) + NavigableCount(menus')
       /\ Resynthesize => Len(RouteTable(routes')) = Len(RouteTable(routes))]_vars

\* C19: the filtered tree holds exactly the nodes that are retained along
\* with all their ancestors, each once, and the children of a node of the
\* filtered tree are its retained children.
C19_FilteredTree ==
    [][EvalVisible =>
          LET out == FlattenVisible(visible')
          IN  /\ Range(out) = ExpectedVisible(menus)
              /\ Len(out) = Cardinality(ExpectedVisible(menus))
              /\ VisibleShape(visible', menus, menus.roots)]_vars

C19_Witness ==
    /\ visible # <<>>
    /\ visible = filterVisibleMenus(menus, menus.roots)
    /\ \E x \in ForestIds(menus) :
         /\ Retained(menus.node[x])
         /\ x \notin ExpectedVisible(menus)

MaxRequests == 3

Requests == 1..MaxRequests

SUCCESS_CODE == 1000

BUSINESS_ERROR_CODE == 1001

AUTH_ERROR_CODES == {401, 403}

\* HTTP statuses of the responses with an error status, and the code
\* field of a response body
ErrorStatuses == AUTH_ERROR_CODES \cup {500}

BodyCodes == {SUCCESS_CODE, BUSINESS_ERROR_CODE}

IdleReq == [state |-> "idle", status |-> 0]

\* http.get / http.post: the request goes out
Send(r) ==
    /\ reqs[r].state = "idle"
    /\ reqs' = [reqs EXCEPT ![r] = [state |-> "sent", status |-> 0]]
    /\ UNCHANGED <<token, refreshToken, userInfo, permissions, ls, menus, routes, nav,
                   loginT, appT, refreshT, pushReq, hydrated, flat, visible,
                   authErrorShowing, dialogs>>
    /\ UNCHANGED auxVars

\* Response interceptor, fulfilled side: a 2xx response whose body carries
\* the code
ResponseSuccess(r, code) ==
    /\ reqs[r].state = "sent"
    /\ reqs' = [reqs EXCEPT ![r] =
                   [state |-> IF code = SUCCESS_CODE THEN "resolved" ELSE "rejected",
                    status |-> 200]]
    /\ UNCHANGED <<token, refreshToken, userInfo, permissions, ls, menus, routes, nav,
                   loginT, appT, refreshT, pushReq, hydrated, flat, visible,
                   authErrorShowing, dialogs>>
    /\ UNCHANGED auxVars

authErrorPrompt_noFlag(showing, open) ==
    [showing |-> TRUE, open |-> open + 1]

\* "Avoid multiple prompts": the flag and the number of open confirmation
\* dialogs after the auth-error branch has run
authErrorPrompt(showing, open) ==
    IF ~showing THEN [showing |-> TRUE, open |-> open + 1]
    ELSE [showing |-> showing, open |-> open]

\* Response interceptor, rejected side: a response with an error status,
\* whatever its body
ResponseError(r, status, code) ==
    /\ reqs[r].state = "sent"
    /\ IF status \in AUTH_ERROR_CODES
       THEN /\ authErrorShowing' = authErrorPrompt(authErrorShowing, dialogs).showing
            /\ dialogs' = authErrorPrompt(authErrorShowing, dialogs).open
       ELSE UNCHANGED <<authErrorShowing, dialogs>>
    /\ reqs' = [reqs EXCEPT ![r] = [state |-> "rejected", status |-> status]]
    /\ UNCHANGED <<token, refreshToken, userInfo, permissions, ls, menus, routes, nav,
                   loginT, appT, refreshT, pushReq, hydrated, flat, visible>>
    /\ UNCHANGED auxVars

\* The user confirms a dialog: .then (logout, push) and .finally
DialogConfirm ==
    /\ dialogs > 0
    /\ logout
    /\ dialogs' = dialogs - 1
    /\ authErrorShowing' = FALSE
    /\ UNCHANGED <<menus, routes, nav, loginT, appT, refreshT, flat, visible, reqs>>
    /\ UNCHANGED auxVars

DialogCancel_keepFlag ==
    /\ dialogs > 0
    /\ dialogs' = dialogs - 1
    /\ UNCHANGED <<token, refreshToken, userInfo, permissions, ls, menus, routes, nav,
                   loginT, appT, refreshT, pushReq, hydrated, flat, visible, reqs,
                   authErrorShowing>>
    /\ UNCHANGED auxVars

\* The user cancels or closes a dialog: .finally alone
DialogCancel ==
    /\ dialogs > 0
    /\ dialogs' = dialogs - 1
    /\ authErrorShowing' = FALSE
    /\ UNCHANGED <<token, refreshToken, userInfo, permissions, ls, menus, routes, nav,
                   loginT, appT, refreshT, pushReq, hydrated, flat, visible, reqs>>
    /\ UNCHANGED auxVars

\* A session as a completed login leaves it
InitHttp ==
    /\ token \in Tokens
    /\ refreshToken \in RefreshTokens
    /\ userInfo \in UserInfos
    /\ permissions \in SUBSET PermCodes
    /\ ls = SetItem(SetItem(SetItem(EmptyStorage, TOKEN_KEY, token),
                            REFRESH_TOKEN_KEY, refreshToken),
                    USER_INFO_KEY, JSONstringify(userInfo))
    /\ menus = EmptyTree
    /\ routes = <<>>
    /\ nav = [i \in {1} |-> IdleNav]
    /\ loginT = IdleLogin /\ appT = "done" /\ refreshT = IdleRefresh
    /\ pushReq = {}
    /\ hydrated = {"person", "perms"}
    /\ flat = <<>> /\ visible = <<>>
    /\ authErrorShowing = FALSE
    /\ dialogs = 0
    /\ reqs = [r \in Requests |-> IdleReq]
    /\ AuxInit

NextHttp ==
    \/ \E r \in Requests : Send(r)
    \/ \E r \in Requests, code \in BodyCodes : ResponseSuccess(r, code)
    \/ \E r \in Requests, status \in ErrorStatuses, code \in BodyCodes :
          ResponseError(r, status, code)
    \/ DialogConfirm
    \/ DialogCancel

SpecHttp == InitHttp /\ [][NextHttp]_vars

(***************************************************************************)
(* Properties of the HTTP wrapper                                          *)
(***************************************************************************)
AuthFailed(r) == reqs[r].state = "rejected" /\ reqs[r].status \in AUTH_ERROR_CODES

\* C12: once a request has completed with status 401 or 403 and its prompt
\* is gone, the session is logged out (memory and storage cleared, /login
\* requested); a rejected request is never sent again.
C12_AuthErrorLogsOut ==
    [][/\ (dialogs' = 0 /\ \E r \in Requests : AuthFailed(r)')
            => Cleared' /\ "/login" \in pushReq'
       /\ \A r \in Requests : reqs[r].state = "rejected" => reqs'[r] = reqs[r]]_vars

\* C13: at most one confirmation dialog is open at any time; a 401/403
\* failure arriving while none is open opens one, one arriving while the
\* dialog is open opens no other, and either way the request is rejected.
C13_SingleDialog ==
    [][/\ dialogs' <= 1
       /\ authErrorShowing' <=> dialogs' = 1
       /\ \A r \in Requests :
            (reqs[r].state = "sent" /\ AuthFailed(r)')
            => dialogs' = 1 /\ dialogs' - dialogs = (IF authErrorShowing THEN 0 ELSE 1)]_vars

C13_Witness ==
    /\ dialogs = 1
    /\ Cardinality({r \in Requests : AuthFailed(r)}) = MaxRequests
    /\ \E r \in Requests : reqs[r].status = 401
    /\ \E r \in Requests : reqs[r].status = 403

\* C28: the flag is set exactly while a dialog is open: a dialog that
\* closes, confirmed or cancelled, clears it, so a 401/403 arriving with no
\* dialog open opens one; the session is logged out by a confirmation and
\* by nothing else.
C28_FlagFollowsDialog ==
    [][/\ dialogs' < dialogs => ~authErrorShowing' /\ dialogs' = 0
       /\ authErrorShowing' <=> dialogs' > 0
       /\ \A r \in Requests :
            (dialogs = 0 /\ reqs[r].state = "sent" /\ AuthFailed(r)')
            => authErrorShowing' /\ dialogs' = 1
       /\ (Session' # Session \/ pushReq' # pushReq)
            => /\ dialogs' < dialogs
               /\ Session' = logoutState(Session)
               /\ "/login" \in pushReq']_vars

\* A prompt opened after an earlier one was closed by confirmation
C28_Witness ==
    /\ dialogs = 1 /\ authErrorShowing
    /\ Cleared /\ "/login" \in pushReq
    /\ \E r \in Requests : reqs[r].state = "sent"

(***************************************************************************)
(* Response envelope: the fulfilled side of the three response             *)
(* interceptors (claude_code api/request.ts, codex service/http.ts,        *)
(* qwn_code api/http.ts)                                                   *)
(***************************************************************************)
Wrappers == {"claude_code", "codex", "qwn_code"}

\* Bodies of 2xx responses: with or without a code field (code 0 when
\* there is none), a message ("" when missing or empty) and a payload in
\* the field the wrapper reads ("" when that field is missing)
Bodies ==
    [coded : {TRUE}, code : {SUCCESS_CODE, BUSINESS_ERROR_CODE, 500},
     message : {"", "denied"}, payload : {"", "p1", "p2"}]
    \cup [coded : {FALSE}, code : {0}, message : {"", "denied"},
          payload : {"", "p1", "p2"}]

\* What a call ends with: a value returned to the caller (the payload, or
\* the whole body with the payload still inside it) or an Error
Resolved(payload, whole) ==
    [kind |-> "resolved", payload |-> payload, whole |-> whole, message |-> ""]

Rejected(message) ==
    [kind |-> "rejected", payload |-> "", whole |-> FALSE, message |-> message]

\* a || b on strings; the fallback texts of the wrappers are in Chinese and
\* stand here in English
OrElse(a, b) == IF a # "" THEN a ELSE b

\* api/request.ts: (response) => { ... }
requestOnFulfilled(body) ==
    IF body.coded
    THEN IF body.code = SUCCESS_CODE THEN Resolved(body.payload, FALSE)
         ELSE IF body.code = BUSINESS_ERROR_CODE
              THEN Rejected(OrElse(body.message, "operation failed"))
              ELSE Rejected(OrElse(body.message, "request failed"))
    ELSE Resolved(body.payload, TRUE)

\* codex http.ts: (resp) => { ... }
codexOnFulfilled(body) ==
    IF body.coded
    THEN IF body.code = SUCCESS_CODE THEN Resolved(body.payload, FALSE)
         ELSE Rejected(OrElse(body.message, "business error"))
    ELSE Resolved(body.payload, TRUE)

\* qwn_code http.ts: (response) => { ... }; it returns response.data
qwnOnFulfilled(body) ==
    IF ~body.coded \/ body.code # SUCCESS_CODE
    THEN Rejected(OrElse(body.message, "request failed"))
    ELSE Resolved(body.payload, TRUE)

\* The promise of the caller is settled with what the interceptor of
\* wrapper w gave
EnvelopeStep(w, settled) ==
    /\ envelope.pc = "sent" /\ envelope.wrapper = w
    /\ envelope' = [envelope EXCEPT !.pc = "done", !.outcome = settled]
    /\ UNCHANGED <<token, refreshToken, userInfo, permissions, ls, menus, routes, nav,
                   loginT, appT, refreshT, pushReq, hydrated, flat, visible,
                   authErrorShowing, dialogs, reqs, resolution, dict, mqtt>>

RequestFulfilled == EnvelopeStep("claude_code", requestOnFulfilled(envelope.body))

CodexFulfilled == EnvelopeStep("codex", codexOnFulfilled(envelope.body))

QwnFulfilled == EnvelopeStep("qwn_code", qwnOnFulfilled(envelope.body))

InitEnvelope ==
    /\ ls = EmptyStorage
    /\ token = "" /\ refreshToken = "" /\ userInfo = NullUser /\ permissions = {}
    /\ menus = EmptyTree /\ routes = <<>>
    /\ nav = [i \in {1} |-> IdleNav]
    /\ loginT = IdleLogin /\ appT = "done" /\ refreshT = IdleRefresh
    /\ pushReq = {} /\ hydrated = {}
    /\ flat = <<>> /\ visible = <<>>
    /\ authErrorShowing = FALSE /\ dialogs = 0 /\ reqs = <<>>
    /\ resolution = NoResolution /\ dict = EmptyDict /\ mqtt = NoMqtt
    /\ \E w \in Wrappers, b \in Bodies :
          envelope = [pc |-> "sent", wrapper |-> w, body |-> b, outcome |-> Rejected("")]

NextEnvelope == RequestFulfilled \/ CodexFulfilled \/ QwnFulfilled

SpecEnvelope == InitEnvelope /\ [][NextEnvelope]_vars

\* C21: a 2xx response whose body carries a numeric code gives the caller
\* the unwrapped payload (not the envelope) when the code is 1000, and
\* otherwise a rejection carrying the server's message; nothing else is
\* returned as a success.
C21_EnvelopeUnwrapped ==
    (envelope.pc = "done" /\ envelope.body.coded) =>
        IF envelope.body.code = SUCCESS_CODE
        THEN envelope.outcome = Resolved(envelope.body.payload, FALSE)
        ELSE /\ envelope.outcome.kind = "rejected"
             /\ envelope.body.message # ""
                  => envelope.outcome.message = envelope.body.message

(***************************************************************************)
(* resolveComponent of the menu store.  A path is the sequence of its      *)
(* separators and names.                                                   *)
(***************************************************************************)
ViewsRoot == <<"/", "src", "/", "views", "/">>

\* `/src/views/${path}.vue`
ComponentPath(path) == ViewsRoot \o path \o <<".vue">>

\* `/src/views/${path}/index.vue`
IndexPath(path) == ViewsRoot \o path \o <<"/", "index", ".vue">>

\* The router values asked for
Routers ==
    { <<"/", "rk">>, <<"rk">>, <<"/", "rk", "/", "supply">>, <<"/", "/", "rk">>,
      <<"/", "rk", "/", "index">>, <<>> }

\* The files import.meta.glob('@/views/**/*.vue') may find
ViewFiles ==
    { ComponentPath(<<"rk">>), IndexPath(<<"rk">>),
      ComponentPath(<<"rk", "/", "supply">>), IndexPath(<<"rk", "/", "supply">>) }

ModuleOf(file) == [kind |-> "module", file |-> file]

\* () => import('@/views/error/404.vue')
NotFoundView == [kind |-> "notfound", file |-> ComponentPath(<<"error", "/", "404">>)]

resolveComponent_indexFirst(modules, router) ==
    LET path == IF router # <<>> /\ Head(router) = "/" THEN Tail(router) ELSE router
    IN  IF IndexPath(path) \in modules THEN ModuleOf(IndexPath(path))
        ELSE IF ComponentPath(path) \in modules THEN ModuleOf(ComponentPath(path))
        ELSE NotFoundView

\* resolveComponent(router), modules being the keys of import.meta.glob
resolveComponent(modules, router) ==
    LET path == IF router # <<>> /\ Head(router) = "/" THEN Tail(router) ELSE router
    IN  IF ComponentPath(path) \in modules THEN ModuleOf(ComponentPath(path))
        ELSE IF IndexPath(path) \in modules THEN ModuleOf(IndexPath(path))
        ELSE NotFoundView

ResolveComponent ==
    /\ resolution.pc = "called"
    /\ resolution' = [resolution EXCEPT
                         !.pc = "returned",
                         !.component = resolveComponent(resolution.modules,
                                                        resolution.router)]
    /\ UNCHANGED <<token, refreshToken, userInfo, permissions, ls, menus, routes, nav,
                   loginT, appT, refreshT, pushReq, hydrated, flat, visible,
                   authErrorShowing, dialogs, reqs, envelope, dict, mqtt>>

InitResolve ==
    /\ ls = EmptyStorage
    /\ token = "" /\ refreshToken = "" /\ userInfo = NullUser /\ permissions = {}
    /\ menus = EmptyTree /\ routes = <<>>
    /\ nav = [i \in {1} |-> IdleNav]
    /\ loginT = IdleLogin /\ appT = "done" /\ refreshT = IdleRefresh
    /\ pushReq = {} /\ hydrated = {}
    /\ flat = <<>> /\ visible = <<>>
    /\ authErrorShowing = FALSE /\ dialogs = 0 /\ reqs = <<>>
    /\ envelope = NoEnvelope /\ dict = EmptyDict /\ mqtt = NoMqtt
    /\ \E m \in SUBSET ViewFiles, r \in Routers :
          resolution = [pc |-> "called", modules |-> m, router |-> r,
                        component |-> NotFoundView]

NextResolve == ResolveComponent

SpecResolve == InitResolve /\ [][NextResolve]_vars

\* C22: resolveComponent, after stripping one leading '/', returns the
\* module at /src/views/<path>.vue when there is one, else the module at
\* /src/views/<path>/index.vue when there is one, else the 404 view; it
\* always returns a component.
C22_ResolveComponent ==
    resolution.pc = "returned" =>
        LET r == resolution.router
            m == resolution.modules
            c == resolution.component
        IN  \E path \in {q \in {r} \cup {SubSeq(r, 2, Len(r))} :
                            \/ <<"/">> \o q = r
                            \/ q = r /\ (r = <<>> \/ r[1] # "/")} :
               /\ ComponentPath(path) \in m => c = ModuleOf(ComponentPath(path))
               /\ (ComponentPath(path) \notin m /\ IndexPath(path) \in m)
                    => c = ModuleOf(IndexPath(path))
               /\ (ComponentPath(path) \notin m /\ IndexPath(path) \notin m)
                    => c = NotFoundView
               /\ c.kind \in {"module", "notfound"}

C22_Witness ==
    /\ resolution.pc = "returned"
    /\ resolution.router = <<"/", "rk">>
    /\ {ComponentPath(<<"rk">>), IndexPath(<<"rk">>)} \subseteq resolution.modules
    /\ resolution.component = ModuleOf(ComponentPath(<<"rk">>))

(***************************************************************************)
(* Dictionary store (stores/dict.ts) and its cache in localStorage         *)
(***************************************************************************)
DICT_CACHE_KEY == "wa_dict_cache"

DICT_CACHE_TIME_KEY == "wa_dict_cache_time"

\* Dictionary type keys the server knows; a dictMap is the set of type
\* keys it holds (the items of a type do not matter here)
DictTypes == {"gender", "status"}

\* JSON.stringify(data) of saveCache
DictJSON(m) ==
    IF m = {} THEN "{}"
    ELSE IF m = {"gender"} THEN "{\"gender\":[]}"
    ELSE IF m = {"status"} THEN "{\"status\":[]}"
    ELSE "{\"gender\":[],\"status\":[]}"

\* new Map(Object.entries(JSON.parse(cached)))
DictParse(str) == CHOOSE m \in SUBSET DictTypes : DictJSON(m) = str

\* Date.now().toString() at the moments the store looks at the clock
Clock == {"1000", "2000", "3000"}

\* loadCache(): fresh says whether elapsed < CACHE_DURATION
loadCache(fresh) ==
    /\ DICT_CACHE_TIME_KEY \in DOMAIN ls
    /\ fresh
    /\ DICT_CACHE_KEY \in DOMAIN ls
    /\ ls[DICT_CACHE_KEY] # ""

\* saveCache()
saveCache(m, now) ==
    SetItem(SetItem(ls, DICT_CACHE_KEY, DictJSON(m)), DICT_CACHE_TIME_KEY, now)

DictFrame ==
    UNCHANGED <<token, refreshToken, userInfo, permissions, menus, routes, nav,
                loginT, appT, refreshT, pushReq, hydrated, flat, visible,
                authErrorShowing, dialogs, reqs, envelope, resolution, mqtt>>

\* fetchDicts(types) up to its await: returns when loading, or when no
\* types are given and the cache is loaded; else issues the request
FetchDicts(typed, fresh) ==
    /\ ~dict.loading
    /\ dict' = IF ~typed /\ loadCache(fresh)
               THEN [dict EXCEPT !.dictMap = DictParse(ls[DICT_CACHE_KEY])]
               ELSE [dict EXCEPT !.loading = TRUE]
    /\ UNCHANGED ls
    /\ DictFrame

\* /v1/dict/info/data answers with an object: dictMap.set for each entry,
\* saveCache(), finally
FetchDictsOK(data, now) ==
    /\ dict.loading
    /\ dict' = [dictMap |-> dict.dictMap \cup data, loading |-> FALSE]
    /\ ls' = saveCache(dict.dictMap \cup data, now)
    /\ DictFrame

\* the request is rejected, or answers with no object: finally
FetchDictsFail ==
    /\ dict.loading
    /\ dict' = [dict EXCEPT !.loading = FALSE]
    /\ UNCHANGED ls
    /\ DictFrame

\* clearCache()
ClearCache ==
    /\ dict' = [dict EXCEPT !.dictMap = {}]
    /\ ls' = RemoveItem(RemoveItem(ls, DICT_CACHE_KEY), DICT_CACHE_TIME_KEY)
    /\ DictFrame

\* A session as a completed login leaves it, the dictionary store new
InitDict ==
    /\ token \in Tokens
    /\ refreshToken \in RefreshTokens
    /\ userInfo \in UserInfos
    /\ permissions \in SUBSET PermCodes
    /\ ls = SetItem(SetItem(SetItem(EmptyStorage, TOKEN_KEY, token),
                            REFRESH_TOKEN_KEY, refreshToken),
                    USER_INFO_KEY, JSONstringify(userInfo))
    /\ menus = EmptyTree /\ routes = <<>>
    /\ nav = [i \in {1} |-> IdleNav]
    /\ loginT = IdleLogin /\ appT = "done" /\ refreshT = IdleRefresh
    /\ pushReq = {}
    /\ hydrated = {"person", "perms"}
    /\ flat = <<>> /\ visible = <<>>
    /\ authErrorShowing = FALSE /\ dialogs = 0 /\ reqs = <<>>
    /\ AuxInit

NextDict ==
    \/ \E typed \in BOOLEAN, fresh \in BOOLEAN : FetchDicts(typed, fresh)
    \/ \E data \in SUBSET DictTypes, now \in Clock : FetchDictsOK(data, now)
    \/ FetchDictsFail
    \/ ClearCache
    \/ UserLogout

SpecDict == InitDict /\ [][NextDict]_vars

\* C24: durable storage never holds an entry other than the access token,
\* the refresh token and the serialized profile, and right after logout()
\* it holds no entry written by the application.
C24_OnlySessionKeysDurable ==
    [][/\ DOMAIN ls' \subseteq AllKeys
       /\ UserLogout => DOMAIN ls' = {}]_vars

(***************************************************************************)
(* MQTT composable (composables/useMqtt.ts): message history               *)
(***************************************************************************)
\* Payloads that parse, received in one run
MaxMessages == 102

HistoryLimit == 100

MqttFrame ==
    UNCHANGED <<token, refreshToken, userInfo, permissions, ls, menus, routes, nav,
                loginT, appT, refreshT, pushReq, hydrated, flat, visible,
                authErrorShowing, dialogs, reqs, envelope, resolution, dict>>

limitHistory_keepOldest(q) ==
    IF Len(q) > HistoryLimit THEN SubSeq(q, 1, HistoryLimit) ELSE q

\* "Limit message history": messages.value.slice(-100) when longer than 100
limitHistory(q) ==
    IF Len(q) > HistoryLimit THEN SubSeq(q, Len(q) - HistoryLimit + 1, Len(q)) ELSE q

\* on('message') of a client that has not been ended.  A payload that
\* parses is the number of parsed payloads so far (the broker numbers its
\* messages); one that does not makes JSON.parse throw into the catch
OnMessage(c, parses) ==
    /\ c \in DOMAIN mqtt.clients /\ mqtt.clients[c] # "ended"
    /\ IF parses
       THEN /\ mqtt.received < MaxMessages
            /\ mqtt' = [mqtt EXCEPT
                          !.messages = limitHistory(Append(mqtt.messages,
                                          [topic |-> "cool/public",
                                           payload |-> mqtt.received + 1])),
                          !.received = mqtt.received + 1]
       ELSE UNCHANGED mqtt
    /\ MqttFrame

\* clearMessages()
ClearMessages ==
    /\ mqtt' = [mqtt EXCEPT !.messages = <<>>, !.clearedAt = mqtt.received]
    /\ MqttFrame

\* The composable mounted, its client connected
InitHistory ==
    /\ ls = EmptyStorage
    /\ token = "" /\ refreshToken = "" /\ userInfo = NullUser /\ permissions = {}
    /\ menus = EmptyTree /\ routes = <<>>
    /\ nav = [i \in {1} |-> IdleNav]
    /\ loginT = IdleLogin /\ appT = "done" /\ refreshT = IdleRefresh
    /\ pushReq = {} /\ hydrated = {}
    /\ flat = <<>> /\ visible = <<>>
    /\ authErrorShowing = FALSE /\ dialogs = 0 /\ reqs = <<>>
    /\ envelope = NoEnvelope /\ resolution = NoResolution /\ dict = EmptyDict
    /\ mqtt = [NoMqtt EXCEPT !.client = 1, !.connected = TRUE,
                             !.clients = <<"connected">>]

NextHistory ==
    \/ \E c \in DOMAIN mqtt.clients, parses \in BOOLEAN : OnMessage(c, parses)
    \/ ClearMessages

SpecHistory == InitHistory /\ [][NextHistory]_vars

\* C29: the history holds at most 100 entries, and they are the latest
\* parsed payloads received since it was last cleared, in arrival order; a
\* payload that does not parse leaves it as it was.
C29_HistoryBounded ==
    [][/\ LET h == mqtt'.messages
              n == Len(h)
              since == mqtt'.received - mqtt'.clearedAt
          IN  /\ n <= 100
              /\ n = IF since < 100 THEN since ELSE 100
              /\ \A i \in 1..n : h[i].payload = mqtt'.received - n + i
       /\ (\E c \in DOMAIN mqtt.clients : OnMessage(c, FALSE))
            => mqtt'.messages = mqtt.messages]_vars

C29_Witness ==
    /\ mqtt.received = 102 /\ mqtt.clearedAt = 0
    /\ Len(mqtt.messages) = 100
    /\ mqtt.messages[1].payload = 3 /\ mqtt.messages[100].payload = 102

(***************************************************************************)
(* MQTT composable: connect(), disconnect() and the events of the clients  *)
(* mqtt.connect() has created.  A client is "connecting", "connected",     *)
(* "offline" (closed, it reconnects by itself: reconnectPeriod), "ended"   *)
(* (end() called, its last close event still to come) or "closed".         *)
(***************************************************************************)
\* Clients created in one run
MaxClients == 3

\* connect(): returns when the held client is connected, else creates a
\* client and holds it
MqttConnect ==
    /\ IF mqtt.client # 0 /\ mqtt.clients[mqtt.client] = "connected"
       THEN UNCHANGED mqtt
       ELSE /\ Len(mqtt.clients) < MaxClients
            /\ mqtt' = [mqtt EXCEPT !.clients = Append(mqtt.clients, "connecting"),
                                    !.client = Len(mqtt.clients) + 1]
    /\ MqttFrame

\* disconnect()
MqttDisconnect ==
    /\ IF mqtt.client # 0
       THEN mqtt' = [mqtt EXCEPT !.clients[mqtt.client] = "ended",
                                 !.client = 0, !.connected = FALSE]
       ELSE UNCHANGED mqtt
    /\ MqttFrame

\* client c gets its CONNACK: on('connect')
OnConnect(c) ==
    /\ mqtt.clients[c] \in {"connecting", "offline"}
    /\ mqtt' = [mqtt EXCEPT !.clients[c] = "connected", !.connected = TRUE]
    /\ MqttFrame

\* the connection of client c is lost, not made, or closed by end():
\* on('close')
OnClose(c) ==
    /\ mqtt.clients[c] \in {"connecting", "connected", "ended"}
    /\ mqtt' = [mqtt EXCEPT !.clients[c] = IF mqtt.clients[c] = "ended" THEN "closed"
                                           ELSE "offline",
                            !.connected = FALSE]
    /\ MqttFrame

InitMqtt ==
    /\ ls = EmptyStorage
    /\ token = "" /\ refreshToken = "" /\ userInfo = NullUser /\ permissions = {}
    /\ menus = EmptyTree /\ routes = <<>>
    /\ nav = [i \in {1} |-> IdleNav]
    /\ loginT = IdleLogin /\ appT = "done" /\ refreshT = IdleRefresh
    /\ pushReq = {} /\ hydrated = {}
    /\ flat = <<>> /\ visible = <<>>
    /\ authErrorShowing = FALSE /\ dialogs = 0 /\ reqs = <<>>
    /\ AuxInit

NextMqtt ==
    \/ MqttConnect
    \/ MqttDisconnect
    \/ \E c \in DOMAIN mqtt.clients : OnConnect(c)
    \/ \E c \in DOMAIN mqtt.clients : OnClose(c)

SpecMqtt == InitMqtt /\ [][NextMqtt]_vars

\* C30: connected is true only while a client is held, so after
\* disconnect() it stays false until connect() is called, whatever events
\* arrive; and connect() creates a client only when every client created
\* before has been ended.
C30_ConnectedOnlyWithClient ==
    [][/\ mqtt'.connected => mqtt'.client # 0
       /\ Len(mqtt'.clients) > Len(mqtt.clients)
            => \A c \in DOMAIN mqtt.clients : mqtt.clients[c] \in {"ended", "closed"}]_vars


(***************************************************************************)
(* Overlapping hydrations: a page load with a stored session, the startup  *)
(* fetch of App.vue and navigations dispatched while a guard is suspended  *)
(***************************************************************************)
MaxNavs == 2

\* What login() and fetchUserInfo() leave in localStorage
StoredSession(t, r, u) ==
    LET s1 == SetItem(EmptyStorage, TOKEN_KEY, t)
        s2 == IF r # "" THEN SetItem(s1, REFRESH_TOKEN_KEY, r) ELSE s1
    IN  IF u # NullUser THEN SetItem(s2, USER_INFO_KEY, JSONstringify(u)) ELSE s2

\* The page is loaded: the store reads localStorage and App.vue mounts
PageLoad(n) ==
    /\ \/ ls = EmptyStorage
       \/ \E t \in Tokens, r \in RefreshTokens \cup {""}, u \in UserInfos \cup {NullUser} :
             ls = StoredSession(t, r, u)
    /\ token = GetItemOr(ls, TOKEN_KEY, "")
    /\ refreshToken = GetItemOr(ls, REFRESH_TOKEN_KEY, "")
    /\ userInfo = JSONparse(GetItemOr(ls, USER_INFO_KEY, "null"))
    /\ permissions = {}
    /\ menus = EmptyTree
    /\ routes = <<>>
    /\ nav = [i \in 1..n |-> IdleNav]
    /\ loginT = IdleLogin
    /\ appT = AppMounted(token)
    /\ refreshT = IdleRefresh
    /\ pushReq = {}
    /\ hydrated = {}
    /\ flat = <<>>
    /\ visible = <<>>
    /\ authErrorShowing = FALSE
    /\ dialogs = 0
    /\ reqs = <<>>
    /\ AuxInit

InitOverlap == PageLoad(MaxNavs)

NextOverlap ==
    \/ \E i \in DOMAIN nav, t \in Targets : Navigate(i, t[1], t[2])
    \/ \E i \in DOMAIN nav, d \in PersonData : GuardPersonOK(i, d)
    \/ \E i \in DOMAIN nav : GuardPersonFail(i)
    \/ \E i \in DOMAIN nav, ps \in SUBSET PermCodes : GuardPermsOK(i, ps)
    \/ \E i \in DOMAIN nav : GuardPermsFail(i)
    \/ \E i \in DOMAIN nav, items \in MenuLists : GuardMenuOK(i, items)
    \/ \E i \in DOMAIN nav : GuardMenuFail(i)
    \/ \E i \in DOMAIN nav : AfterEach(i)
    \/ \E d \in PersonData : AppPersonOK(d)
    \/ \E ps \in SUBSET PermCodes : AppPermsOK(ps)
    \/ AppFail

SpecOverlap == InitOverlap /\ [][NextOverlap]_vars

\* The hydration flows that have issued a fetch and not yet finished
Hydrating ==
    Cardinality({i \in DOMAIN nav : nav[i].pc \in InFlight})
        + (IF appT \in {"person", "perms"} THEN 1 ELSE 0)

\* C25: at most one hydration flow is in flight at any time: neither a
\* second navigation to a protected route nor the startup fetch of App.vue
\* issues a second set of fetches while one is pending, and the routes are
\* registered by one flow only.
C25_OneHydrationInFlight ==
    /\ Hydrating <= 1
    /\ Cardinality({i \in DOMAIN nav : nav[i].log # <<>> /\ Last(nav[i].log) = "redispatch"}) <= 1


(***************************************************************************)
(* One navigation attempt and what the router makes of next(): a location  *)
(* passed to next() is dispatched as a new navigation through the guard    *)
(***************************************************************************)
MaxAttempts == 1

InitChain == PageLoad(MaxAttempts)

\* next(location): the router runs the guard again on the location;
\* { ...to, replace: true } keeps the query of the target
Follow(i) ==
    /\ nav[i].pc = "done"
    /\ nav[i].outcome.kind \in {"redirect", "redispatch"}
    /\ LET q  == IF nav[i].outcome.kind = "redispatch"
                 THEN CHOOSE x \in {t[2] : t \in Targets} :
                          nav[i].to.path \o x = nav[i].to.fullPath
                 ELSE ""
           to == Resolve(routes, nav[i].outcome.path, q)
           d  == beforeEach(to)
       IN  nav' = [nav EXCEPT ![i] =
                      IF d = Await
                      THEN [pc |-> "person", to |-> to, outcome |-> NoOutcome,
                            log |-> nav[i].log \o <<"person:issued">>]
                      ELSE [pc |-> "done", to |-> to, outcome |-> d,
                            log |-> nav[i].log]]
    /\ UNCHANGED extVars
    /\ UNCHANGED <<token, refreshToken, userInfo, permissions, ls, menus, routes,
                   loginT, appT, refreshT, pushReq, hydrated>>

\* next() with no argument: the navigation is confirmed
Settle(i) ==
    /\ nav[i].outcome = Allow
    /\ AfterEach(i)

\* The answers of the server to the fetches of guard invocation i
Respond(i) ==
    \/ \E d \in PersonData : GuardPersonOK(i, d)
    \/ GuardPersonFail(i)
    \/ \E ps \in SUBSET PermCodes : GuardPermsOK(i, ps)
    \/ GuardPermsFail(i)
    \/ \E items \in MenuLists : GuardMenuOK(i, items)
    \/ GuardMenuFail(i)

NextChain ==
    \/ \E i \in DOMAIN nav, t \in Targets : Navigate(i, t[1], t[2])
    \/ \E i \in DOMAIN nav : Respond(i)
    \/ \E i \in DOMAIN nav : Follow(i)
    \/ \E i \in DOMAIN nav : Settle(i)
    \/ \E d \in PersonData : AppPersonOK(d)
    \/ \E ps \in SUBSET PermCodes : AppPermsOK(ps)
    \/ AppFail

\* Every network call is answered and every location passed to next() is
\* dispatched
SpecChain ==
    /\ InitChain
    /\ [][NextChain]_vars
    /\ \A i \in 1..MaxAttempts : WF_vars(Respond(i)) /\ WF_vars(Follow(i))

\* The hydrations a navigation attempt has started
Hydrations(i) == Cardinality({k \in DOMAIN nav[i].log : nav[i].log[k] = "person:issued"})

\* C26: a guard invocation has called next exactly when it is over, and a
\* navigation attempt, its redirects and re-dispatches included, starts at
\* most one hydration and eventually ends with a plain next() on an allowed
\* route or a public page.
C26_NavigationTerminates ==
    /\ [](\A i \in DOMAIN nav :
            /\ (nav[i].pc = "done") <=> (nav[i].outcome # NoOutcome)
            /\ Hydrations(i) <= 1)
    /\ \A i \in 1..MaxAttempts :
          (nav[i].pc # "idle") ~> (nav[i].pc = "done" /\ nav[i].outcome = Allow)

C26_Witness ==
    \E i \in DOMAIN nav :
        /\ nav[i].pc = "done" /\ nav[i].outcome = Allow
        /\ Hydrations(i) = 1 /\ Last(nav[i].log) = "redispatch"

====
